---------------------------- MODULE Spec2Model ----------------------------
(***************************************************************************)
(* Model of src/src/main.rs: the epsilon-greedy n-armed bandit             *)
(* (EpsilonGreedyBandit), the task that drives it (BanditTask::run_task)   *)
(* and the averaging driver (main).                                        *)
(*                                                                         *)
(* Numbers.  The program computes in f64.  The model computes in exact     *)
(* fixed point: the integer v stands for the real v / Scale.  Scale is a   *)
(* multiple of every divisor the program can use within the bounds (a      *)
(* history length, num_plays, num_tasks), so every division of the model   *)
(* is exact.  f64 rounding is not modelled.                                *)
(*                                                                         *)
(* Vectors.  A Rust Vec is a sequence; the element at the 0-based index i  *)
(* of v is v[i + 1].  Actions are numbered from 0 as in the source.        *)
(***************************************************************************)
EXTENDS Integers, Sequences, FiniteSets

\* ------------------------------------------------------------------ bounds

\* Largest number of arms of a bandit or of a task.
MaxArms == 3

\* Largest number of plays of one run_task call.
MaxPlays == 2

\* Largest number of tasks the driver runs.
MaxTasks == 1

RECURSIVE Factorial(_)
Factorial(k) == IF k <= 1 THEN 1 ELSE k * Factorial(k - 1)

\* The fixed-point unit: the integer Scale stands for the f64 value 1.0.
\* It is even, so that 0.5 is representable.
Scale == 2 * Factorial(IF MaxPlays >= MaxTasks THEN MaxPlays ELSE MaxTasks)

\* Samples of Normal(q_star[j], 1.0): a normal distribution has every real
\* in its support whatever its mean, so the values a candidate can take do
\* not depend on q_star; q_star (main.rs 137-141) is read nowhere else.
RewardVals == {0 - Scale, Scale}

\* Samples of Range::new(0f64, 1.): the half-open interval [0, 1).
XVals == {0, Scale - 1}

\* Values of the epsilon parameter: 0.0, 0.5 and 1.0.
EpsilonVals == {0, Scale \div 2, Scale}

\* ---------------------------------------------------------- vector helpers

\* v[i] of the source, i counted from 0.
At(v, i) == v[i + 1]

\* The values a vector holds.
Elems(v) == {v[k] : k \in 1..Len(v)}

\* The result of an operation that either returns a value or panics.
Ok(v) == [panic |-> FALSE, value |-> v]
Panicked == [panic |-> TRUE, value |-> 0]

\* ------------------------------------------------------ EpsilonGreedyBandit

\* EpsilonGreedyBandit::new: n empty reward vectors; n is not checked.
New(n, eps) ==
    [n |-> n, past_rewards |-> [k \in 1..n |-> <<>>], epsilon |-> eps]

\* SumLoop as it would be with the loop stopping one element early.
RECURSIVE SumLoopShort(_, _, _)
SumLoopShort(rs, k, sum) ==
    IF k >= Len(rs) - 1 THEN sum ELSE SumLoopShort(rs, k + 1, sum + At(rs, k))

\* The summing loop of calculate_estimate: sum += past_rewards[action][i]
\* for i from k up to the length.
RECURSIVE SumLoop(_, _, _)
SumLoop(rs, k, sum) ==
    IF k >= Len(rs) THEN sum ELSE SumLoop(rs, k + 1, sum + At(rs, k))

\* EpsilonGreedyBandit::calculate_estimate.
calculate_estimate(b, action) ==
    LET num_actions == Len(b.past_rewards)
    IN  IF ~(action < num_actions) THEN Panicked
        ELSE LET rs == At(b.past_rewards, action)
                 num_past_rewards == Len(rs)
             IN  IF num_past_rewards = 0 THEN Ok(0)
                 ELSE Ok(SumLoop(rs, 0, 0) \div num_past_rewards)

\* receive_reward as it would be pushing on the vector of the next action.
receive_reward_next_arm(b, reward, action) ==
    IF ~(action < Len(b.past_rewards)) THEN Panicked
    ELSE Ok([b EXCEPT !.past_rewards[((action + 1) % Len(b.past_rewards)) + 1]
                          = Append(@, reward)])

\* receive_reward as it would be keeping only the latest reward.
receive_reward_reset(b, reward, action) ==
    IF ~(action < Len(b.past_rewards)) THEN Panicked
    ELSE Ok([b EXCEPT !.past_rewards[action + 1] = <<reward>>])

\* EpsilonGreedyBandit::receive_reward: past_rewards[action].push(reward).
receive_reward(b, reward, action) ==
    IF ~(action < Len(b.past_rewards)) THEN Panicked
    ELSE Ok([b EXCEPT !.past_rewards[action + 1] = Append(@, reward)])

\* GreedyLoop as it would be without max_actions.clear().
RECURSIVE GreedyLoopNoClear(_, _, _, _)
GreedyLoopNoClear(estimates, i, max_actions, max_value) ==
    IF i >= Len(estimates) THEN max_actions
    ELSE IF At(estimates, i) >= max_value
         THEN GreedyLoopNoClear(estimates, i + 1, Append(max_actions, i),
                                At(estimates, i))
         ELSE GreedyLoopNoClear(estimates, i + 1, max_actions, max_value)

\* GreedyLoop as it would be pushing 1-based action numbers.
RECURSIVE GreedyLoopOneBased(_, _, _, _)
GreedyLoopOneBased(estimates, i, max_actions, max_value) ==
    IF i >= Len(estimates) THEN max_actions
    ELSE IF At(estimates, i) > max_value
         THEN GreedyLoopOneBased(estimates, i + 1, <<i + 1>>, At(estimates, i))
         ELSE IF At(estimates, i) = max_value
              THEN GreedyLoopOneBased(estimates, i + 1,
                                      Append(max_actions, i + 1), max_value)
              ELSE GreedyLoopOneBased(estimates, i + 1, max_actions, max_value)

\* The loop of the greedy branch of choose_action, from index i on.
RECURSIVE GreedyLoop(_, _, _, _)
GreedyLoop(estimates, i, max_actions, max_value) ==
    IF i >= Len(estimates) THEN max_actions
    ELSE IF At(estimates, i) > max_value
         THEN GreedyLoop(estimates, i + 1, <<i>>, At(estimates, i))
         ELSE IF At(estimates, i) = max_value
              THEN GreedyLoop(estimates, i + 1, Append(max_actions, i), max_value)
              ELSE GreedyLoop(estimates, i + 1, max_actions, max_value)

\* ExploreLoop as it would be clearing max_actions, as the greedy branch
\* does, instead of moving its elements to non_max_actions.
RECURSIVE ExploreLoopClear(_, _, _, _, _)
ExploreLoopClear(estimates, i, non_max_actions, max_actions, max_value) ==
    IF i >= Len(estimates) THEN <<non_max_actions, max_actions>>
    ELSE IF At(estimates, i) > max_value
         THEN ExploreLoopClear(estimates, i + 1, non_max_actions,
                               <<i>>, At(estimates, i))
         ELSE IF At(estimates, i) = max_value
              THEN ExploreLoopClear(estimates, i + 1, non_max_actions,
                                    Append(max_actions, i), max_value)
              ELSE ExploreLoopClear(estimates, i + 1,
                                    Append(non_max_actions, i),
                                    max_actions, max_value)

\* The loop of the non-greedy branch of choose_action, from index i on:
\* the pair of vectors <<non_max_actions, max_actions>> it ends with.
\* non_max_actions.append(&mut max_actions) moves every element and leaves
\* max_actions empty.
RECURSIVE ExploreLoop(_, _, _, _, _)
ExploreLoop(estimates, i, non_max_actions, max_actions, max_value) ==
    IF i >= Len(estimates) THEN <<non_max_actions, max_actions>>
    ELSE IF At(estimates, i) > max_value
         THEN ExploreLoop(estimates, i + 1, non_max_actions \o max_actions,
                          <<i>>, At(estimates, i))
         ELSE IF At(estimates, i) = max_value
              THEN ExploreLoop(estimates, i + 1, non_max_actions,
                               Append(max_actions, i), max_value)
              ELSE ExploreLoop(estimates, i + 1, Append(non_max_actions, i),
                               max_actions, max_value)

\* The estimates vector choose_action builds (main.rs 47-50).
Estimates(b) == [k \in 1..b.n |-> calculate_estimate(b, k - 1).value]

\* The vector choose_action draws its result from, given the estimates
\* (at least one) and the uniform draw x.
Candidates(estimates, eps, x) ==
    IF x > eps
    THEN GreedyLoop(estimates, 1, <<0>>, At(estimates, 0))
    ELSE LET p == ExploreLoop(estimates, 1, <<>>, <<0>>, At(estimates, 0))
         IN  IF Len(p[1]) > 0 THEN p[1] ELSE p[2]

\* gen_range(0, v.len()) followed by v[k]: every element of v can come out.
Pick(v) == {At(v, k) : k \in 0..(Len(v) - 1)}

\* EpsilonGreedyBandit::choose_action with the uniform draw x: the set of
\* results it can return, or a panic.
choose_action(b, x) ==
    IF ~(b.n > 0) THEN {Panicked}
    ELSE IF \E k \in 0..(b.n - 1) : calculate_estimate(b, k).panic
         THEN {Panicked}
         ELSE {Ok(a) : a \in Pick(Candidates(Estimates(b), b.epsilon, x))}

\* -------------------------------------------------------------------- state

VARIABLES
    params,       \* what main injects: n of the task, n of the bandit,
                  \* num_tasks, num_plays, epsilon (main.rs 177-180)
    pc,           \* where the program is
    task_i,       \* main: the index i of the loop over the tasks
    task,         \* the BanditTask of the current iteration
    bandit,       \* the EpsilonGreedyBandit of the current iteration
    play_i,       \* run_task: the index i of the loop over the plays
    reward,       \* run_task: the reward candidates of the current play
    x,            \* choose_action: the uniform draw of the current play
    action,       \* run_task: the action chosen at the current play
    rewards,      \* run_task: the rewards delivered so far, then returned
    avg_rewards,  \* main: the accumulator, then the aggregate result
    actions,      \* history: the action chosen at each play of this run
    total         \* history: per play index, the sum of the rewards
                  \* delivered at that index over all tasks so far

vars == <<params, pc, task_i, task, bandit, play_i, reward, x, action,
          rewards, avg_rewards, actions, total>>

\* No bandit or task exists outside an iteration of main's loop.
NoBandit == [n |-> 0, past_rewards |-> <<>>, epsilon |-> 0]
NoTask == [n |-> 0]

\* No action has been chosen (a usize is never negative).
NoAction == 0 - 1

\* BanditTask::new.
NewTask(n) == [n |-> n]

\* A bandit and a task exist and run_task has been entered.
InRun == pc \in {"play", "chosen", "returned"}

\* main up to the loop over the tasks: avg_rewards is num_plays zeros.
Init ==
    /\ params \in [n_task : 0..MaxArms, n_bandit : 0..MaxArms,
                    num_tasks : 0..MaxTasks, num_plays : 0..MaxPlays,
                    epsilon : EpsilonVals]
    /\ pc = "main"
    /\ task_i = 0
    /\ task = NoTask
    /\ bandit = NoBandit
    /\ play_i = 0
    /\ reward = <<>>
    /\ x = 0
    /\ action = NoAction
    /\ rewards = <<>>
    /\ avg_rewards = [t \in 1..params.num_plays |-> 0]
    /\ actions = <<>>
    /\ total = [t \in 1..params.num_plays |-> 0]

\* reward[action] as it would be always reading the first candidate.
DeliveredFirst(cands, a) == At(cands, 0)

\* run_task 158-159: reward[action], the candidate of the chosen action.
Delivered(cands, a) == At(cands, a)

\* main 187-191 and run_task 134-141: a new task and a new bandit, and
\* run_task is entered with an empty rewards vector.
StartTask ==
    /\ pc = "main"
    /\ task_i < params.num_tasks
    /\ task' = NewTask(params.n_task)
    /\ bandit' = New(params.n_bandit, params.epsilon)
    /\ rewards' = <<>>
    /\ actions' = <<>>
    /\ play_i' = 0
    /\ pc' = "play"
    /\ UNCHANGED <<params, task_i, reward, x, action, avg_rewards, total>>

\* run_task 149-157: one candidate per arm of the task is drawn, then the
\* bandit chooses an action (or choose_action panics).
ChooseStep ==
    /\ pc = "play"
    /\ play_i < params.num_plays
    /\ \E cands \in [1..task.n -> RewardVals], u \in XVals :
         \E r \in choose_action(bandit, u) :
            /\ reward' = cands
            /\ x' = u
            /\ IF r.panic
               THEN /\ pc' = "panic"
                    /\ action' = NoAction
               ELSE /\ pc' = "chosen"
                    /\ action' = r.value
    /\ UNCHANGED <<params, task_i, task, bandit, play_i, rewards,
                   avg_rewards, actions, total>>

\* run_task 158-159: the candidate of the chosen action is pushed on
\* rewards and fed back to the bandit; reward[action] panics when the
\* task has no such arm.  The locals of the play go out of scope.
RecordStep ==
    /\ pc = "chosen"
    /\ IF ~(action < Len(reward))
       THEN /\ pc' = "panic"
            /\ UNCHANGED <<bandit, rewards, play_i, actions, total,
                           reward, x, action>>
       ELSE LET r == receive_reward(bandit, Delivered(reward, action), action)
            IN  IF r.panic
                THEN /\ pc' = "panic"
                     /\ rewards' = Append(rewards, Delivered(reward, action))
                     /\ UNCHANGED <<bandit, play_i, actions, total,
                                    reward, x, action>>
                ELSE /\ pc' = "play"
                     /\ rewards' = Append(rewards, Delivered(reward, action))
                     /\ bandit' = r.value
                     /\ play_i' = play_i + 1
                     /\ actions' = Append(actions, action)
                     /\ total' = [total EXCEPT ![play_i + 1] =
                                      @ + Delivered(reward, action)]
                     /\ reward' = <<>>
                     /\ x' = 0
                     /\ action' = NoAction
    /\ UNCHANGED <<params, task_i, task, avg_rewards>>

\* run_task 143 and 161: the loop over the plays is over and rewards is
\* returned to main.
ReturnStep ==
    /\ pc = "play"
    /\ play_i = params.num_plays
    /\ pc' = "returned"
    /\ UNCHANGED <<params, task_i, task, bandit, play_i, reward, x, action,
                   rewards, avg_rewards, actions, total>>

\* main 193-196: avg_rewards[i] += rewards[i] for every play index; the
\* task and the bandit of the iteration are dropped.
Accumulate ==
    /\ pc = "returned"
    /\ avg_rewards' = [t \in 1..params.num_plays |->
                          avg_rewards[t] + rewards[t]]
    /\ task_i' = task_i + 1
    /\ task' = NoTask
    /\ bandit' = NoBandit
    /\ rewards' = <<>>
    /\ actions' = <<>>
    /\ play_i' = 0
    /\ pc' = "main"
    /\ UNCHANGED <<params, reward, x, action, total>>

\* main 198-200: avg_rewards[i] /= num_plays as f64.
Finalize ==
    /\ pc = "main"
    /\ task_i = params.num_tasks
    /\ avg_rewards' = [t \in 1..params.num_plays |->
                          avg_rewards[t] \div params.num_plays]
    /\ pc' = "done"
    /\ UNCHANGED <<params, task_i, task, bandit, play_i, reward, x, action,
                   rewards, actions, total>>

Next ==
    \/ StartTask
    \/ ChooseStep
    \/ RecordStep
    \/ ReturnStep
    \/ Accumulate
    \/ Finalize

Spec == Init /\ [][Next]_vars

\* ------------------------------------------------- reference definitions

\* The reward vector of action a in the live bandit.
History(a) == At(bandit.past_rewards, a)

\* The largest value of a non-empty vector.
MaxOf(v) == CHOOSE m \in Elems(v) : \A w \in Elems(v) : w <= m

\* Two-pass partition: first the maximum, then the comparison with it.
GreedySet(estimates) ==
    LET m == MaxOf(estimates)
    IN  {a \in 0..(Len(estimates) - 1) : At(estimates, a) = m}
NonGreedySet(estimates) ==
    LET m == MaxOf(estimates)
    IN  {a \in 0..(Len(estimates) - 1) : At(estimates, a) < m}

\* The set the selection rule names for the draw u.
SelectedSet(estimates, eps, u) ==
    LET others == NonGreedySet(estimates)
    IN  IF u > eps THEN GreedySet(estimates)
        ELSE IF others # {} THEN others
             ELSE GreedySet(estimates)

\* The sum of a vector, taken from its end.
RECURSIVE SumOf(_)
SumOf(v) == IF v = <<>> THEN 0 ELSE SumOf(SubSeq(v, 1, Len(v) - 1)) + v[Len(v)]

\* The rearrangements of a vector.
Rearrangements(v) ==
    LET idx == 1..Len(v)
        perms == {f \in [idx -> idx] : \A j, k \in idx : j # k => f[j] # f[k]}
    IN  {[k \in idx |-> v[f[k]]] : f \in perms}

\* The rewards of the plays of this run at which action a was chosen, in
\* play order, among the first k plays.
RECURSIVE DeliveredTo(_, _)
DeliveredTo(a, k) ==
    IF k = 0 THEN <<>>
    ELSE IF actions[k] = a THEN Append(DeliveredTo(a, k - 1), rewards[k])
         ELSE DeliveredTo(a, k - 1)

\* The task and the bandit have the same, positive, number of arms.
Matched == params.n_task = params.n_bandit /\ params.n_bandit >= 1

\* Exactly one action has an estimate above every other one's.
UniqueMax(estimates) == Cardinality(GreedySet(estimates)) = 1
TheMax(estimates) == CHOOSE a \in GreedySet(estimates) : TRUE

\* ------------------------------------------------------------------ claims

\* C1: when the driver finishes with T >= 1 tasks and P >= 1 plays, the
\* aggregate at each play index is the sum over the tasks of the reward
\* delivered at that index, divided by T.
C1_AggregateIsMeanOverTasks ==
    (pc = "done" /\ params.num_tasks >= 1 /\ params.num_plays >= 1)
        => \A t \in 1..params.num_plays :
               avg_rewards[t] * params.num_tasks = total[t]

\* C2: choose_action returns a member of the greedy set when x > epsilon,
\* a member of the non-greedy set when x <= epsilon and that set is not
\* empty, a member of the greedy set otherwise; the vectors its single
\* pass builds hold the sets of the two-pass partition, and every member of
\* the selected set can be returned.  The first conjunct is about the call
\* just made; the second is about every draw of the call about to be made
\* (the bandit is the same in both states).
C2_SelectionRule ==
    /\ pc = "chosen" =>
           LET est == Estimates(bandit)
           IN  action \in SelectedSet(est, bandit.epsilon, x)
    /\ (pc = "play" /\ bandit.n > 0) =>
           LET est == Estimates(bandit)
               explore == ExploreLoop(est, 1, <<>>, <<0>>, At(est, 0))
           IN  /\ Elems(GreedyLoop(est, 1, <<0>>, At(est, 0))) = GreedySet(est)
               /\ Elems(explore[1]) = NonGreedySet(est)
               /\ Elems(explore[2]) = GreedySet(est)
               /\ \A u \in XVals :
                      /\ \A r \in choose_action(bandit, u) : ~r.panic
                      /\ {r.value : r \in choose_action(bandit, u)}
                             = SelectedSet(est, bandit.epsilon, u)

\* C2 witness: an exploring draw over estimates whose first two actions tie
\* and are then exceeded by the third, so that both are moved to the
\* non-greedy vector.
C2_Witness ==
    /\ pc = "chosen"
    /\ x <= bandit.epsilon
    /\ bandit.n = 3
    /\ LET est == Estimates(bandit)
       IN  est[1] = est[2] /\ est[3] > est[1]
    /\ action = 1

\* C3 as stated: with epsilon = 0 and one action strictly best, every draw
\* x of [0, 1), 0 included, returns that action.
C3_AlwaysGreedyAtZeroEpsilon ==
    (pc = "chosen" /\ bandit.epsilon = 0 /\ UniqueMax(Estimates(bandit)))
        => action = TheMax(Estimates(bandit))

\* C3 amended: with epsilon = 0 and one action strictly best, every draw
\* x > 0 returns that action; the draw x = 0 returns another action when
\* there is one.
C3_GreedyAtZeroEpsilonForPositiveDraws ==
    (pc = "chosen" /\ bandit.epsilon = 0 /\ UniqueMax(Estimates(bandit)))
        => /\ x > 0 => action = TheMax(Estimates(bandit))
           /\ (x = 0 /\ bandit.n > 1) => action # TheMax(Estimates(bandit))
           /\ bandit.n = 1 => action = 0

\* C3 witness: epsilon = 0, a positive draw, the one best action is not
\* action 0 and is returned.
C3_Witness ==
    /\ pc = "chosen"
    /\ bandit.epsilon = 0
    /\ x > 0
    /\ bandit.n >= 2
    /\ UniqueMax(Estimates(bandit))
    /\ TheMax(Estimates(bandit)) # 0
    /\ action = TheMax(Estimates(bandit))

\* C4: no bandit with zero arms exists, so no operation runs or returns
\* on one.
C4_NoZeroArmBandit == InRun => bandit.n > 0

\* C5: run_task with a bandit whose arm count differs from the task's
\* chooses no action, delivers and records no reward and does not return.
C5_MismatchAbortsRun ==
    (InRun /\ bandit.n # task.n)
        => /\ pc = "play"
           /\ rewards = <<>>
           /\ \A a \in 0..(bandit.n - 1) : History(a) = <<>>

\* C6: the bandit has exactly n reward vectors, and every value in the
\* vector of action a was delivered at a play at which a was chosen.
C6_HistoryInvariant ==
    InRun =>
        /\ Len(bandit.past_rewards) = bandit.n
        /\ bandit.n = params.n_bandit
        /\ \A a \in 0..(bandit.n - 1) :
               \A k \in 1..Len(History(a)) :
                   \E t \in 1..Len(actions) :
                       actions[t] = a /\ rewards[t] = History(a)[k]

\* C6 witness: two plays chose different actions and received different
\* rewards.
C6_Witness ==
    /\ pc = "play"
    /\ Len(actions) = 2
    /\ actions[1] # actions[2]
    /\ rewards[1] # rewards[2]
    /\ History(actions[2]) = <<rewards[2]>>

\* C7: with matching positive arm counts run_task does not panic and
\* returns exactly num_plays rewards; each play appends the candidate of
\* the chosen action to rewards and records that same value for that action,
\* so that the vector of each action is the rewards of its plays in order.
C7_RunReturnsDeliveredRewards ==
    /\ [](Matched =>
            /\ pc # "panic"
            /\ pc = "returned" => Len(rewards) = params.num_plays
            /\ InRun =>
                  /\ Len(rewards) = play_i
                  /\ Len(actions) = play_i
                  /\ \A a \in 0..(bandit.n - 1) :
                         History(a) = DeliveredTo(a, play_i))
    /\ [][(Matched /\ pc = "chosen") =>
            /\ rewards' = Append(rewards, At(reward, action))
            /\ At(bandit'.past_rewards, action)
                   = Append(History(action), At(reward, action))
            /\ play_i' = play_i + 1]_vars

\* C7 witness: a run of two plays returned two different rewards delivered
\* for two different actions.
C7_Witness ==
    /\ pc = "returned"
    /\ Matched
    /\ Len(rewards) = 2
    /\ rewards[1] # rewards[2]
    /\ actions[1] # actions[2]

\* C8: with n > 0 arms choose_action returns an index of [0, n), and 0
\* when n = 1: for the call just made, and for every draw of the call
\* about to be made.
C8_ActionInRange ==
    /\ pc = "chosen" =>
          /\ action \in 0..(bandit.n - 1)
          /\ bandit.n = 1 => action = 0
    /\ (pc = "play" /\ bandit.n > 0) =>
          \A u \in XVals : \A r \in choose_action(bandit, u) :
              /\ ~r.panic
              /\ r.value \in 0..(bandit.n - 1)
              /\ bandit.n = 1 => r.value = 0

\* C8 witness: the last action of a bandit of several arms is returned
\* after a reward has been recorded.
C8_Witness ==
    /\ pc = "chosen"
    /\ bandit.n >= 2
    /\ action = bandit.n - 1
    /\ play_i >= 1

BanditLives == pc \in {"play", "chosen", "returned", "panic"}

C10_HistoryOnlyGrowsByRecord ==
    [][(BanditLives /\ BanditLives') =>
          /\ bandit'.n = bandit.n
          /\ bandit'.epsilon = bandit.epsilon
          /\ Len(bandit'.past_rewards) = Len(bandit.past_rewards)
          /\ \A a \in 0..(bandit.n - 1) :
                /\ Len(At(bandit'.past_rewards, a)) >= Len(History(a))
                /\ SubSeq(At(bandit'.past_rewards, a), 1, Len(History(a)))
                       = History(a)
          /\ pc # "chosen" => bandit' = bandit
          /\ (pc = "chosen" /\ pc' = "play") =>
                \A a \in 0..(bandit.n - 1) :
                    At(bandit'.past_rewards, a) =
                        IF a = action
                        THEN Append(History(a), At(reward, action))
                        ELSE History(a)]_vars

\* C10 witness: a reward has been recorded on top of an earlier, different
\* one while another action's vector stayed empty.
C10_Witness ==
    /\ pc = "play"
    /\ \E a, b \in 0..(bandit.n - 1) :
           /\ Len(History(a)) = 2
           /\ History(a)[1] # History(a)[2]
           /\ History(b) = <<>>

=============================================================================
